---- MODULE Spec2Model ----
(***************************************************************************)
(* Bucket elimination for influence diagrams (merlin::be, include/be.h).   *)
(*                                                                         *)
(* The state is the solver object (m_gmo, m_order, m_meu, m_policy), the   *)
(* locals of be::run (fin, vin, used, roots, the loop iterator x), the     *)
(* text written to std::cout, and the position of run() in its own code    *)
(* (pc).  One action per loop iteration of run().  Factor ids and          *)
(* positions are 1-based here (0-based in the source).                     *)
(*                                                                         *)
(* The factor library (factor.h) and the model container (limid.h) are not *)
(* part of the sources at hand; their operations are written from the      *)
(* factor-algebra contract of the specification (section 4.1).  A factor   *)
(* operation that raises yields a poisoned value (BadDims, BadDivide),     *)
(* which every later operation propagates; the action that produced it     *)
(* ends run() with the error.                                              *)
(***************************************************************************)
EXTENDS Integers, Sequences, FiniteSets, TLC

\* ------------------------------------------------------------------ bounds
NumVars == 3
MaxFactors == 2
Card == 2

Vars == 1..NumVars

\* --------------------------------------------------------------- rationals
\* A table entry is an exact rational <<n, d>> with d > 0 in lowest terms.
RECURSIVE GCD(_, _)
GCD(a, b) == IF b = 0 THEN a ELSE GCD(b, a % b)

Abs(n) == IF n < 0 THEN -n ELSE n

RNorm(n, d) ==
    LET g == GCD(Abs(n), Abs(d))
        s == IF d < 0 THEN -1 ELSE 1
    IN  IF n = 0 THEN <<0, 1>> ELSE <<(s * n) \div g, (s * d) \div g>>

Rat(n) == <<n, 1>>
Zero == <<0, 1>>
One == <<1, 1>>
Half == <<1, 2>>

RAdd(p, q) == RNorm(p[1] * q[2] + q[1] * p[2], p[2] * q[2])
RMul(p, q) == RNorm(p[1] * q[1], p[2] * q[2])
RLeq(p, q) == p[1] * q[2] <= q[1] * p[2]
RMax(p, q) == IF RLeq(p, q) THEN q ELSE p
RMin(p, q) == IF RLeq(p, q) THEN p ELSE q
\* Entrywise quotient: 0/0 is 0.  A non-zero numerator over a zero
\* denominator is an error, which Quotient below raises before dividing.
RDiv(p, q) == IF q[1] = 0 THEN Zero ELSE RNorm(p[1] * q[2], p[2] * q[1])

\* The entrywise and the elimination operators, by name.
Apply(op, p, q) ==
    CASE op = "Times" -> RMul(p, q)
      [] op = "Plus" -> RAdd(p, q)
      [] op = "Divide" -> RDiv(p, q)
      [] op = "Sum" -> RAdd(p, q)
      [] op = "Max" -> RMax(p, q)
      [] op = "Min" -> RMin(p, q)

\* ------------------------------------------------------------ factor algebra
\* A factor: dims maps each scope variable to the number of states the
\* factor's table has for it, t maps each configuration of the scope to an
\* entry, type is the semantic tag.
Probability == "Probability"
Utility == "Utility"

\* What a raising operation yields: the cardinalities of a shared variable
\* differ, or a non-zero entry is divided by zero.
BadDims == [dims |-> <<>>, t |-> <<>>, type |-> "cardinality mismatch"]
BadDivide == [dims |-> <<>>, t |-> <<>>, type |-> "division by zero"]
IsBad(f) == f.type \in {BadDims.type, BadDivide.type}

vars(f) == DOMAIN f.dims
nvar(f) == Cardinality(vars(f))

\* Configurations of a scope with the given dimensions.
Configs(dims) ==
    {a \in [DOMAIN dims -> 0..(Card - 1)] : \A v \in DOMAIN dims : a[v] < dims[v]}

Restrict(a, S) == [v \in S |-> a[v]]

\* factor(c): the scalar factor with the single entry c.  Its tag is
\* Probability until set_type says otherwise.
Scalar(c) == [dims |-> <<>>, t |-> [a \in {<<>>} |-> c], type |-> Probability]

set_type(f, ty) == IF IsBad(f) THEN f ELSE [f EXCEPT !.type = ty]

\* Two factors agree on the cardinality of every shared variable.
Compatible(f, g) ==
    \A v \in vars(f) \cap vars(g) : f.dims[v] = g.dims[v]

JoinDims(f, g) ==
    [v \in vars(f) \cup vars(g) |-> IF v \in vars(f) THEN f.dims[v] ELSE g.dims[v]]

\* Entrywise binary operation over the union scope.  The result keeps the
\* left operand's tag (the engine re-tags before it stores).
BinaryOp(f, g, op) ==
    IF IsBad(f) THEN f
    ELSE IF IsBad(g) THEN g
    ELSE IF ~Compatible(f, g) THEN BadDims
    ELSE LET d == JoinDims(f, g)
         IN  [dims |-> d,
              t |-> [a \in Configs(d) |->
                        Apply(op, f.t[Restrict(a, vars(f))], g.t[Restrict(a, vars(g))])],
              type |-> f.type]

Product(f, g) == BinaryOp(f, g, "Times")
Plus(f, g) == BinaryOp(f, g, "Plus")

\* f / g: an error when some configuration has a non-zero numerator over a
\* zero denominator.
Quotient(f, g) ==
    IF IsBad(f) THEN f
    ELSE IF IsBad(g) THEN g
    ELSE IF ~Compatible(f, g) THEN BadDims
    ELSE IF \E a \in Configs(JoinDims(f, g)) :
                /\ g.t[Restrict(a, vars(g))] = Zero
                /\ f.t[Restrict(a, vars(f))] # Zero
         THEN BadDivide
         ELSE BinaryOp(f, g, "Divide")

\* Fold of a binary operation over the entries of f at a set of
\* configurations (never empty: every dimension is at least 1).
RECURSIVE FoldEntries(_, _, _)
FoldEntries(f, A, op) ==
    LET a == CHOOSE b \in A : TRUE
    IN  IF A = {a} THEN f.t[a]
        ELSE Apply(op, f.t[a], FoldEntries(f, A \ {a}, op))

\* Marginal of f over the variables of vs that are in its scope.
Marginal(f, vs, op) ==
    IF IsBad(f) THEN f
    ELSE LET keep == vars(f) \ vs
             d == [v \in keep |-> f.dims[v]]
         IN  [dims |-> d,
              t |-> [a \in Configs(d) |->
                        FoldEntries(f, {b \in Configs(f.dims) : Restrict(b, keep) = a}, op)],
              type |-> f.type]

sum(f, vs) == Marginal(f, vs, "Sum")
max(f, vs) == Marginal(f, vs, "Max")
min(f, vs) == Marginal(f, vs, "Min")

\* f.max(): the largest entry of the whole table.
maxall(f) == FoldEntries(f, Configs(f.dims), "Max")

\* f.slice(v, a): fix v to the value a; a factor without v is unchanged.
slice(f, v, val) ==
    IF IsBad(f) THEN f
    ELSE IF v \notin vars(f) THEN f
    ELSE LET keep == vars(f) \ {v}
             d == [u \in keep |-> f.dims[u]]
         IN  [dims |-> d,
              t |-> [a \in Configs(d) |->
                        f.t[[u \in vars(f) |-> IF u = v THEN val ELSE a[u]]]],
              type |-> f.type]


\* ------------------------------------------------------------ the input model
Kinds == {"c", "d", "v"}

SetMin(S) == CHOOSE m \in S : \A n \in S : m <= n

\* Table entry of an input factor at configuration a.
\*   half, narrow: 1/2 everywhere;
\*   eq: 1 where all scope variables are equal, else 0;
\*   first: the value of the lowest scope variable (0 for a constant);
\*   alt: 1 where the values add up to an even number, else -1.
RECURSIVE ValueSum(_, _)
ValueSum(a, S) ==
    IF S = {} THEN 0
    ELSE LET v == SetMin(S) IN a[v] + ValueSum(a, S \ {v})

Entry(shape, scope, a) ==
    CASE shape \in {"half", "narrow"} -> Half
      [] shape = "eq" -> IF \A u, v \in scope : a[u] = a[v] THEN One ELSE Zero
      [] shape = "first" -> IF scope = {} THEN Zero ELSE Rat(a[SetMin(scope)])
      [] shape = "alt" -> IF ValueSum(a, scope) % 2 = 0 THEN One ELSE Rat(-1)

\* An input factor.  Shape narrow declares a one-state copy of its lowest
\* variable, where every other factor gives the variable Card states.
InputFactor(scope, ty, shape) ==
    LET d == [v \in scope |->
                 IF shape = "narrow" /\ v = SetMin(scope) THEN 1 ELSE Card]
    IN  [dims |-> d, t |-> [a \in Configs(d) |-> Entry(shape, scope, a)], type |-> ty]

\* order(method) returns a permutation of all variables.
Orders == {o \in [1..NumVars -> Vars] : \A i, j \in 1..NumVars : o[i] = o[j] => i = j}

\* Sets of at most n elements of S, and a listing of a set.
RECURSIVE SubsetsUpTo(_, _)
SubsetsUpTo(S, n) ==
    IF n = 0 THEN {{}}
    ELSE LET P == SubsetsUpTo(S, n - 1)
         IN  P \cup {q \cup {e} : q \in P, e \in S}

RECURSIVE ListOf(_)
ListOf(S) ==
    IF S = {} THEN <<>>
    ELSE LET e == CHOOSE f \in S : TRUE IN <<e>> \o ListOf(S \ {e})

\* Models of the structural runs: every scope, both tags, one table shape.
FactorCatalog ==
    {InputFactor(sc, ty, "half") : sc \in SUBSET Vars, ty \in {Probability, Utility}}

Models ==
    {[vtypes |-> vt, factors |-> ListOf(fs), islimid |-> lim, order |-> o] :
        vt \in [Vars -> Kinds], fs \in SubsetsUpTo(FactorCatalog, MaxFactors),
        lim \in BOOLEAN, o \in Orders}

\* Models of the numeric runs: chance and decision variables, at most
\* MaxFactors - 1 probability factors and one utility factor over one or two
\* variables, tables with zeros, negative entries and mismatched
\* cardinalities among them.
SmallScopes == {sc \in SUBSET Vars : Cardinality(sc) \in {1, 2}}

ProbCatalog ==
    {InputFactor(sc, Probability, sh) :
        sc \in SmallScopes, sh \in {"half", "first", "alt", "narrow"}}

UtilCatalog == {InputFactor(sc, Utility, "eq") : sc \in SmallScopes}

ModelsNum ==
    {[vtypes |-> vt, factors |-> ListOf(ps) \o ListOf(us), islimid |-> lim, order |-> o] :
        vt \in [Vars -> {"c", "d"}],
        ps \in SubsetsUpTo(ProbCatalog, MaxFactors - 1),
        us \in SubsetsUpTo(UtilCatalog, 1),
        lim \in {FALSE}, o \in Orders}

\* ------------------------------------------------------------------ state
VARIABLES
    m_gmo,      \* the original influence diagram (read only)
    m_order,    \* be::m_order
    m_meu,      \* be::m_meu (<<>>: the value it held before run())
    m_policy,   \* be::m_policy, a map from decision variables to factors
    fin,        \* run(): the factor pool
    fid,        \* run(): the number of factors in the pool
    vin,        \* run(): the bucket of each variable, a set of factor ids
    used,       \* run(): used[i], input factor i is in a bucket
    roots,      \* run(): ids of the constant factors
    x,          \* run(): position of the loop iterator in m_order
    pc,         \* where run() is
    err,        \* the error run() ended with
    out,        \* lines written to std::cout
    ids,        \* ids[v]: the local ids of the forward iteration on v
    origin      \* origin[i]: position being processed when factor i was
                \* stored (0: an input factor)

vars_all == <<m_gmo, m_order, m_meu, m_policy, fin, fid, vin, used, roots, x,
              pc, err, out, ids, origin>>

m_vtypes == m_gmo.vtypes
NoMeu == <<>>

\* The error a raising factor operation ends run() with.
AlgebraError(bad) == <<"AlgebraError", bad.type>>
UnsupportedModel == <<"UnsupportedModel", "BE is only supported for standard IDs.">>
NoError == <<>>

\* The solver as be(lm) leaves it, before run().
Constructed ==
    /\ m_order = <<>>
    /\ m_meu = NoMeu
    /\ m_policy = <<>>
    /\ fin = <<>>
    /\ fid = 0
    /\ vin = [v \in Vars |-> {}]
    /\ used = <<>>
    /\ roots = {}
    /\ x = 0
    /\ pc = "start"
    /\ err = NoError
    /\ out = <<>>
    /\ ids = [v \in Vars |-> {}]
    /\ origin = <<>>

Init == m_gmo \in Models /\ Constructed
InitNum == m_gmo \in ModelsNum /\ Constructed

\* run() throws: the members stay as they are; the locals, dead from here
\* on, keep what the failing iteration found.
Throw(e) ==
    /\ pc' = "failed"
    /\ err' = e


\* ------------------------------------------------------------------ be.h
\* be::elim
elim(f, vs, op) ==
    CASE op = "Sum" -> sum(f, vs)
      [] op = "Max" -> max(f, vs)
      [] op = "Min" -> min(f, vs)

\* insert without its break: the id goes to every later bucket whose variable
\* is in the scope.
insert_nobreak(adj, id, f, xp, ord) ==
    [v \in DOMAIN adj |->
        IF \E y \in (xp + 1)..Len(ord) : ord[y] = v /\ v \in vars(f)
        THEN adj[v] \cup {id} ELSE adj[v]]

\* insert with adj[*x] for adj[*y]: the id goes to the bucket being processed.
insert_self(adj, id, f, xp, ord) ==
    LET later == {y \in (xp + 1)..Len(ord) : ord[y] \in vars(f)}
    IN  IF later = {} THEN adj
        ELSE [adj EXCEPT ![ord[xp]] = @ \cup {id}]

\* be::insert: the id goes to the bucket of the first variable after
\* position xp of ord that is in the factor's scope, if there is one.
insert(adj, id, f, xp, ord) ==
    LET later == {y \in (xp + 1)..Len(ord) : ord[y] \in vars(f)}
    IN  IF later = {} THEN adj
        ELSE [adj EXCEPT ![ord[SetMin(later)]] = @ \cup {id}]

\* init with the LIMID check after the prologue and the ordering.
be_init_late ==
    /\ pc = "start"
    /\ m_order' = m_gmo.order
    /\ out' = out \o <<"Initialize solver ...", "elimination", "induced width",
                       "Initialization complete">>
    /\ IF m_gmo.islimid
       THEN Throw(UnsupportedModel)
       ELSE pc' = "locals" /\ err' = err
    /\ UNCHANGED <<m_gmo, m_meu, m_policy, fin, fid, vin, used, roots, x, ids, origin>>

\* be::init
be_init ==
    /\ pc = "start"
    /\ IF m_gmo.islimid
       THEN /\ Throw(UnsupportedModel)
            /\ UNCHANGED <<m_order, out>>
       ELSE /\ m_order' = m_gmo.order
            /\ out' = out \o <<"Initialize solver ...", "elimination", "induced width",
                               "Initialization complete">>
            /\ pc' = "locals"
            /\ err' = err
    /\ UNCHANGED <<m_gmo, m_meu, m_policy, fin, fid, vin, used, roots, x, ids, origin>>

\* run(), lines 248-260: the locals.
run_locals ==
    /\ pc = "locals"
    /\ fin' = m_gmo.factors
    /\ fid' = Len(m_gmo.factors)
    /\ roots' = {}
    /\ vin' = [v \in Vars |-> {}]
    /\ used' = [i \in 1..Len(m_gmo.factors) |-> FALSE]
    /\ origin' = [i \in 1..Len(m_gmo.factors) |-> 0]
    /\ out' = Append(out, "Partition factors into buckets ...")
    /\ x' = 1
    /\ pc' = "partition"
    /\ UNCHANGED <<m_gmo, m_order, m_meu, m_policy, err, ids>>

\* The partition loop without its used[i] test.
marked_any(usedv, finv, VX) ==
    {i \in 1..Len(finv) : VX \in vars(finv[i])}

\* The input factors the partition loop marks for variable VX.
marked(usedv, finv, VX) ==
    {i \in 1..Len(finv) : usedv[i] = FALSE /\ VX \in vars(finv[i])}

\* run(), one iteration of the partition loop.
partition ==
    /\ pc = "partition"
    /\ x <= Len(m_order)
    /\ LET VX == m_order[x]
           new == marked(used, fin, VX)
       IN  /\ vin' = [vin EXCEPT ![VX] = @ \cup new]
           /\ used' = [i \in DOMAIN used |-> used[i] \/ i \in new]
           /\ out' = Append(out, "Bucket")
    /\ x' = x + 1
    /\ UNCHANGED <<m_gmo, m_order, m_meu, m_policy, fin, fid, roots, pc, err, ids, origin>>

partition_end ==
    /\ pc = "partition"
    /\ x > Len(m_order)
    /\ out' = out \o <<"Finished initializing the buckets.", "Begin variable elimination ...">>
    /\ x' = 1
    /\ pc' = "forward"
    /\ UNCHANGED <<m_gmo, m_order, m_meu, m_policy, fin, fid, vin, used, roots, err, ids, origin>>


\* run(), lines 297-307: the probability and the utility factors of a bucket.
phi_of(bucket, finv) == {i \in bucket : finv[i].type = Probability}
psi_of(bucket, finv) == {i \in bucket : finv[i].type = Utility}

\* comb *= fin[*i] over the ids of S, in increasing id.
RECURSIVE times_all(_, _, _)
times_all(comb, finv, S) ==
    IF S = {} THEN comb
    ELSE LET i == SetMin(S)
         IN  times_all(Product(comb, finv[i]), finv, S \ {i})

\* comb += fin[*j] over the ids of S, in increasing id.
RECURSIVE plus_all(_, _, _)
plus_all(comb, finv, S) ==
    IF S = {} THEN comb
    ELSE LET j == SetMin(S)
         IN  plus_all(Plus(comb, finv[j]), finv, S \ {j})

\* run(), lines 323-326 (and 338-341, 355-358, 372-375): store a new factor.
\* st holds the locals fin, vin, roots, fid.
store(st, f, xp, ord) ==
    LET id == st.fid + 1
    IN  [fin |-> Append(st.fin, f),
         vin |-> insert(st.vin, id, f, xp, ord),
         roots |-> IF nvar(f) = 0 THEN st.roots \cup {id} ELSE st.roots,
         fid |-> id]

\* Chance bucket, line 321: the probability message.
chance_prob(comb, VX) == set_type(elim(comb, {VX}, "Sum"), Probability)

\* The utility message without the weighting by comb.
chance_util_nocomb(comb, fj, f, VX) ==
    set_type(Quotient(elim(fj, {VX}, "Sum"), f), Utility)

\* Chance bucket, lines 334-337: the utility message of utility factor fj.
chance_util(comb, fj, f, VX) ==
    set_type(Quotient(elim(Product(comb, fj), {VX}, "Sum"), f), Utility)

\* Chance bucket, lines 333-346: the loop over psi.
RECURSIVE chance_utils(_, _, _, _, _, _)
chance_utils(st, psi, comb, f, xp, ord) ==
    IF psi = {} THEN st
    ELSE LET j == SetMin(psi)
             g == chance_util(comb, st.fin[j], f, ord[xp])
         IN  chance_utils(store(st, g, xp, ord), psi \ {j}, comb, f, xp, ord)

\* Chance bucket, lines 314-346.
chance_bucket(st, bucket, xp, ord) ==
    LET comb == times_all(Scalar(One), st.fin, phi_of(bucket, st.fin))
        f == chance_prob(comb, ord[xp])
    IN  chance_utils(store(st, f, xp, ord), psi_of(bucket, st.fin), comb, f, xp, ord)

\* The probability message without the slice.
decision_prob_noslice(fi, VX) == set_type(fi, Probability)

\* Decision bucket, line 353: the message of probability factor fi.
decision_prob(fi, VX) == set_type(slice(fi, VX, 0), Probability)

\* Decision bucket, lines 352-363: the loop over phi.
RECURSIVE decision_probs(_, _, _, _)
decision_probs(st, phi, xp, ord) ==
    IF phi = {} THEN st
    ELSE LET i == SetMin(phi)
             f == decision_prob(st.fin[i], ord[xp])
         IN  decision_probs(store(st, f, xp, ord), phi \ {i}, xp, ord)

\* The utility message by minimization.
decision_util_min(comb, VX) == set_type(min(comb, {VX}), Utility)

\* Decision bucket, line 370: the utility message.
decision_util(comb, VX) == set_type(max(comb, {VX}), Utility)

\* Decision bucket, lines 351-375.
decision_bucket(st, bucket, xp, ord) ==
    LET st1 == decision_probs(st, phi_of(bucket, st.fin), xp, ord)
        comb == plus_all(Scalar(Zero), st.fin, psi_of(bucket, st.fin))
    IN  store(st1, decision_util(comb, ord[xp]), xp, ord)

\* run(), lines 309-380: what the iteration on position xp does to the locals.
process_bucket(st, bucket, xp, ord, kind) ==
    CASE kind = "c" -> chance_bucket(st, bucket, xp, ord)
      [] kind = "d" -> decision_bucket(st, bucket, xp, ord)
      [] OTHER -> st

locals == [fin |-> fin, vin |-> vin, roots |-> roots, fid |-> fid]

\* run(), line 294: an empty bucket is skipped.
forward_skip ==
    /\ pc = "forward"
    /\ x <= Len(m_order)
    /\ vin[m_order[x]] = {}
    /\ x' = x + 1
    /\ UNCHANGED <<m_gmo, m_order, m_meu, m_policy, fin, fid, vin, used, roots,
                   pc, err, out, ids, origin>>

\* run(), one iteration of the forward loop on a bucket that holds factors.
forward ==
    /\ pc = "forward"
    /\ x <= Len(m_order)
    /\ vin[m_order[x]] # {}
    /\ LET VX == m_order[x]
           st == process_bucket(locals, vin[VX], x, m_order, m_vtypes[VX])
       IN  /\ ids' = [ids EXCEPT ![VX] = vin[VX]]
           /\ IF \E i \in (fid + 1)..st.fid : IsBad(st.fin[i])
              THEN /\ Throw(AlgebraError(st.fin[SetMin({i \in (fid + 1)..st.fid : IsBad(st.fin[i])})]))
                   /\ out' = Append(out, "Eliminating")
                   /\ UNCHANGED <<fin, fid, vin, roots, x, origin>>
              ELSE /\ fin' = st.fin
                   /\ fid' = st.fid
                   /\ vin' = st.vin
                   /\ roots' = st.roots
                   /\ origin' = [i \in 1..st.fid |-> IF i <= fid THEN origin[i] ELSE x]
                   /\ out' = IF m_vtypes[VX] \in {"c", "d"}
                             THEN Append(out, "Eliminating") ELSE out
                   /\ x' = x + 1
                   /\ UNCHANGED <<pc, err>>
    /\ UNCHANGED <<m_gmo, m_order, m_meu, m_policy, used>>

\* run(), lines 385-394: the combination of the constant factors.
root_F(rts, finv) ==
    Product(times_all(Scalar(One), finv, phi_of(rts, finv)),
            plus_all(Scalar(Zero), finv, psi_of(rts, finv)))

\* run(), lines 383-409: the maximum expected utility.
root_meu ==
    /\ pc = "forward"
    /\ x > Len(m_order)
    /\ LET F == root_F(roots, fin)
       IN  IF IsBad(F)
           THEN /\ Throw(AlgebraError(F))
                /\ UNCHANGED <<m_meu, out, x>>
           ELSE /\ m_meu' = maxall(F)
                /\ out' = out \o <<"End variable elimination.", "MEU value is",
                                   "Begin building optimal policy ...">>
                /\ x' = Len(m_order)
                /\ pc' = "backward"
                /\ err' = err
    /\ UNCHANGED <<m_gmo, m_order, m_policy, fin, fid, vin, used, roots, ids, origin>>

\* The policy factor without the probability factors of the bucket.
policy_F_utility(bucket, finv) ==
    plus_all(Scalar(Zero), finv, psi_of(bucket, finv))

\* run(), lines 423-433: the policy factor of a decision bucket.
policy_F(bucket, finv) ==
    Product(times_all(Scalar(One), finv, phi_of(bucket, finv)),
            plus_all(Scalar(Zero), finv, psi_of(bucket, finv)))

\* run(), line 418: the backward loop skips what is not a decision.
backward_skip ==
    /\ pc = "backward"
    /\ x >= 1
    /\ m_vtypes[m_order[x]] # "d"
    /\ x' = x - 1
    /\ UNCHANGED <<m_gmo, m_order, m_meu, m_policy, fin, fid, vin, used, roots,
                   pc, err, out, ids, origin>>

\* run(), one iteration of the backward loop on a decision variable.
backward ==
    /\ pc = "backward"
    /\ x >= 1
    /\ m_vtypes[m_order[x]] = "d"
    /\ LET VX == m_order[x]
           F == policy_F(vin[VX], fin)
       IN  IF IsBad(F)
           THEN /\ Throw(AlgebraError(F))
                /\ UNCHANGED <<m_policy, out, x>>
           ELSE /\ m_policy' = [v \in DOMAIN m_policy \cup {VX} |->
                                   IF v = VX THEN F ELSE m_policy[v]]
                /\ out' = Append(out, "Policy for decision")
                /\ x' = x - 1
                /\ UNCHANGED <<pc, err>>
    /\ UNCHANGED <<m_gmo, m_order, m_meu, fin, fid, vin, used, roots, ids, origin>>

\* run(), lines 439-442: run() returns.
run_end ==
    /\ pc = "backward"
    /\ x = 0
    /\ out' = out \o <<"End building optimal policy.", "Done.">>
    /\ pc' = "done"
    /\ UNCHANGED <<m_gmo, m_order, m_meu, m_policy, fin, fid, vin, used, roots,
                   x, err, ids, origin>>

Next ==
    \/ be_init
    \/ run_locals
    \/ partition
    \/ partition_end
    \/ forward_skip
    \/ forward
    \/ root_meu
    \/ backward_skip
    \/ backward
    \/ run_end

Spec == Init /\ [][Next]_vars_all
SpecNum == InitNum /\ [][Next]_vars_all


\* -------------------------------------------------------------- properties
\* Position of variable v in the elimination order.
pos(v) == CHOOSE p \in 1..Len(m_gmo.order) : m_gmo.order[p] = v

\* The buckets are built and run() has not thrown.
Partitioned == pc \in {"forward", "backward", "done"}

InputIds == 1..Len(m_gmo.factors)
Messages == {i \in 1..Len(fin) : origin[i] > 0}
BucketsOf(i) == {v \in Vars : i \in vin[v]}

\* Positions whose forward iteration is over.
Processed ==
    IF pc = "forward" THEN 1..(x - 1)
    ELSE IF pc \in {"backward", "done"} THEN 1..Len(m_order)
    ELSE {}

\* The model of scenario 3: binary chance C with P(C) = [0.5, 0.5], binary
\* decision D, U(C, D) = 1 where C = D and 0 elsewhere.
P_C(C) ==
    [dims |-> [v \in {C} |-> 2],
     t |-> [a \in [{C} -> {0, 1}] |-> Half],
     type |-> Probability]

U_CD(C, D) ==
    [dims |-> [v \in {C, D} |-> 2],
     t |-> [a \in [{C, D} -> {0, 1}] |-> IF a[C] = a[D] THEN One ELSE Zero],
     type |-> Utility]

Scenario3(C, D) ==
    /\ C # D
    /\ m_vtypes[C] = "c"
    /\ m_vtypes[D] = "d"
    /\ Len(m_gmo.factors) = 2
    /\ {m_gmo.factors[1], m_gmo.factors[2]} = {P_C(C), U_CD(C, D)}

SameTable(f, g) == f.dims = g.dims /\ f.t = g.t

\* C1 as stated: on the scenario-3 model with C eliminated before D, run()
\* ends with MEU = 1 and policy[D] = U(C, D) over {D, C}.
C1_Original ==
    \A C, D \in Vars :
        (pc = "done" /\ Scenario3(C, D) /\ pos(C) < pos(D)) =>
            /\ m_meu = One
            /\ D \in DOMAIN m_policy
            /\ SameTable(m_policy[D], U_CD(C, D))

\* C1 amended: on the scenario-3 model run() ends with MEU = 1 and
\* policy[D] = [[1,0],[0,1]] over {D, C} when D is eliminated before C
\* (order [D, C]); with C eliminated before D (order [C, D]) it ends with
\* MEU = 1/2 and policy[D] = [1/2, 1/2] over {D}.
C1_Scenario3 ==
    \A C, D \in Vars :
        (pc = "done" /\ Scenario3(C, D)) =>
            /\ D \in DOMAIN m_policy
            /\ IF pos(D) < pos(C)
               THEN /\ m_meu = One
                    /\ SameTable(m_policy[D], U_CD(C, D))
               ELSE /\ m_meu = Half
                    /\ m_policy[D].dims = [v \in {D} |-> 2]
                    /\ m_policy[D].t = [a \in [{D} -> {0, 1}] |-> Half]

C1_Witness ==
    \E C, D \in Vars : pc = "done" /\ Scenario3(C, D) /\ pos(D) < pos(C) /\ m_meu = One

\* C2 as stated: when run() has failed, m_meu and m_policy are what they
\* were before run() was called.
C2_NoPartialResult ==
    pc = "failed" => (m_meu = NoMeu /\ m_policy = <<>>)

C4_Original ==
    pc = "done" =>
        \A v \in Vars : m_vtypes[v] = "d" =>
            /\ v \in DOMAIN m_policy
            /\ v \in vars(m_policy[v])
            /\ \A u \in vars(m_policy[v]) : pos(u) >= pos(v)

\* C4 amended: after a successful run every decision variable x of the
\* order has a policy; no variable before x is in its scope; x is in its
\* scope when the bucket of x is not empty (the policy of an empty decision
\* bucket is the constant 0).
C4_PolicyScope ==
    pc = "done" =>
        \A v \in Vars : m_vtypes[v] = "d" =>
            /\ v \in DOMAIN m_policy
            /\ \A u \in vars(m_policy[v]) : pos(u) >= pos(v)
            /\ IF vin[v] # {} THEN v \in vars(m_policy[v])
               ELSE vars(m_policy[v]) = {} /\ m_policy[v].t[<<>>] = Zero

C4_Witness ==
    /\ pc = "done"
    /\ \E v \in Vars :
          /\ m_vtypes[v] = "d"
          /\ vin[v] \cap Messages # {}
          /\ \A i \in vin[v] : fin[i].type = Probability
          /\ nvar(m_policy[v]) >= 2

\* C5 as stated: after the initial assignment every input factor is in
\* exactly one bucket, that of the earliest variable of the order in its
\* scope.
C5_Original ==
    Partitioned =>
        \A i \in InputIds :
            \E v \in Vars :
                /\ BucketsOf(i) = {v}
                /\ v \in vars(fin[i])
                /\ \A u \in vars(fin[i]) : pos(v) <= pos(u)

\* C5 amended: after the initial assignment every input factor with a
\* non-empty scope is in exactly one bucket, that of the earliest variable of
\* the order in its scope; an input factor with an empty scope is in none.
C5_BucketCoverage ==
    Partitioned =>
        \A i \in InputIds :
            IF vars(fin[i]) = {} THEN BucketsOf(i) = {}
            ELSE \E v \in Vars :
                    /\ BucketsOf(i) = {v}
                    /\ v \in vars(fin[i])
                    /\ \A u \in vars(fin[i]) : pos(v) <= pos(u)

C5_Witness ==
    /\ pc = "forward" /\ x = 1
    /\ \E i, j \in InputIds :
          /\ nvar(fin[i]) >= 2 /\ nvar(fin[j]) >= 2
          /\ BucketsOf(i) # BucketsOf(j)
          /\ vars(fin[i]) \cap vars(fin[j]) # {}

\* C6: every message stored while position p was processed is in exactly one
\* place: the bucket of the first variable after p in the order that is in
\* its scope, or, when there is none, the roots set.
C6_MessagePlacement ==
    \A i \in Messages :
        LET later == {y \in (origin[i] + 1)..Len(m_order) : m_order[y] \in vars(fin[i])}
        IN  IF later = {}
            THEN i \in roots /\ BucketsOf(i) = {}
            ELSE i \notin roots /\ BucketsOf(i) = {m_order[SetMin(later)]}

C6_Witness ==
    /\ \E i \in Messages :
          /\ Cardinality({y \in (origin[i] + 1)..Len(m_order) :
                             m_order[y] \in vars(fin[i])}) >= 2
          /\ Cardinality(BucketsOf(i)) = 1
    /\ \E i \in Messages : i \in roots

\* C7: no message stored while position p was processed has a variable at a
\* position <= p in its scope.
C7_ScopeMonotone ==
    \A i \in Messages : \A v \in vars(fin[i]) : pos(v) > origin[i]

C7_Witness ==
    /\ \E i \in Messages :
          /\ m_vtypes[m_order[origin[i]]] = "c"
          /\ fin[i].type = Utility /\ nvar(fin[i]) >= 1
    /\ \E i \in Messages :
          /\ m_vtypes[m_order[origin[i]]] = "c"
          /\ fin[i].type = Probability /\ nvar(fin[i]) >= 1
    /\ \E i \in Messages :
          /\ m_vtypes[m_order[origin[i]]] = "d"
          /\ fin[i].type = Probability /\ nvar(fin[i]) >= 1

\* C8 as stated: the forward iteration on a value variable whose bucket holds
\* utility factors stores a utility message for the bucket.
C8_ValueEliminated ==
    \A p \in Processed :
        (m_vtypes[m_order[p]] = "v" /\ psi_of(vin[m_order[p]], fin) # {}) =>
            \E i \in Messages : origin[i] = p /\ fin[i].type = Utility

\* C9: a message is only ever in the bucket of a variable later than the one
\* it was generated for, and a processed bucket holds exactly the ids the
\* forward iteration on it read (so it is never modified again, and the
\* backward visit of a decision reads what the forward pass consumed).
C9_ForwardOnly ==
    /\ \A v \in Vars : \A i \in vin[v] : origin[i] < pos(v)
    /\ \A p \in Processed : vin[m_order[p]] = ids[m_order[p]]

C9_Witness ==
    /\ pc = "backward" /\ x >= 1
    /\ m_vtypes[m_order[x]] = "d"
    /\ vin[m_order[x]] \cap Messages # {}
    /\ vin[m_order[x]] \cap InputIds # {}
    /\ x < Len(m_order)

\* Every entry of f is >= 0.
NonNegative(f) == \A a \in DOMAIN f.t : RLeq(Zero, f.t[a])

\* C10: the division of a chance bucket never has a non-zero numerator over
\* a zero denominator when the bucket's probability factors are non-negative.
C10_DivisionSafe ==
    (pc = "failed" /\ err = AlgebraError(BadDivide)) =>
        \E i \in phi_of(vin[m_order[x]], fin) : ~NonNegative(fin[i])

\* A chance iteration with non-negative probability factors has divided a
\* utility message by a probability message with a zero entry.
C10_Witness ==
    \E p \in Processed :
        /\ m_vtypes[m_order[p]] = "c"
        /\ \A i \in phi_of(ids[m_order[p]], fin) : NonNegative(fin[i])
        /\ \E i, j \in Messages :
              /\ origin[i] = p /\ fin[i].type = Probability
              /\ \E a \in DOMAIN fin[i].t : fin[i].t[a] = Zero
              /\ origin[j] = p /\ fin[j].type = Utility

====
